---- MODULE Spec2Model ----
(***************************************************************************)
(* Pass prediction of sat-tracker-cli (src/visibility.py): the period      *)
(* estimator get_orbital_period, the pass scanner predict_passes and the   *)
(* summarizer get_next_pass_info; and the position sampler get_position    *)
(* of src/orbit.py.                                                        *)
(*                                                                         *)
(* Values.                                                                 *)
(*   - A float the code computes from the mean-motion field (mean_motion,  *)
(*     period_minutes, step_minutes) is an IEEE 754 double, held exactly:  *)
(*     sign, odd mantissa and binary exponent, or an infinity or a NaN.    *)
(*   - A datetime is the ordinal of its day with the seconds and the       *)
(*     microseconds of its time of day; a timedelta is held in days,       *)
(*     seconds and microseconds as Python holds it.                        *)
(*   - hours_ahead is held in sixtieths of an hour: h stands for the       *)
(*     int h / 60 when 60 divides h and for the double nearest h / 60      *)
(*     otherwise.                                                          *)
(*   - An elevation (el, min_elevation, max_elevation) is held in          *)
(*     thousandths of a degree; round(x, 2) of an elevation yields         *)
(*     hundredths of a degree and round(x, 1) of minutes yields tenths of  *)
(*     a minute.                                                           *)
(***************************************************************************)
EXTENDS Integers, Sequences, FiniteSets, TLC

VARIABLES
  line2,            \* the mean-motion field line2[52:63] predict_passes was given, a
                    \* sequence of characters; None before the call
  hours_ahead,      \* argument of predict_passes, None before the call
  min_elevation,    \* argument of predict_passes, None before the call
  pc,               \* "idle", "scan", "returned", "raised", "summarized"
  exc,              \* the exception predict_passes raised, or "None"
  raised_by,        \* the call or statement that raised it, or "None"
  period_minutes,   \* result of get_orbital_period, None before the call
  step_minutes,
  step_delta,       \* timedelta(minutes=step_minutes) as the loop evaluates it
  start_time,       \* datetime.now() read by predict_passes
  end_time,
  current_time,
  in_pass,
  pass_start,
  max_elevation,
  max_el_time,
  passes,           \* the list predict_passes builds and returns
  sample,           \* what the latest loop iteration got from sat.sgp4 and the transforms
  now2,             \* datetime.now() read by get_next_pass_info
  info,             \* result of get_next_pass_info
  position_pc,      \* get_position: "idle", "returned", "raised"
  sgp4_result,      \* what sat.sgp4 returned to get_position: e, r, v; None if not called
  geodetic,         \* what pm.eci2geodetic returned to get_position, None if not called
  position,         \* the dictionary get_position returned, None if it did not return
  position_exc,     \* the exception get_position raised, or "None"
  \* History variables: they record what get_orbital_period parsed and what
  \* the loop of predict_passes was fed, and are read by the properties only.
  mean_motion,      \* what float(line2[52:63]) gave: exc and value; None if not called
  n_samples,        \* number of samples taken
  run,              \* the run of above-threshold samples now open, failed samples skipped
  closed_runs,      \* the runs a sample at or below the threshold has closed, in order
  strict_open,      \* starts of the runs (broken by failed samples too) not yet followed
                    \* by a sample at or below the threshold
  strict_expected   \* starts of those runs that have been followed by such a sample

vars == <<line2, hours_ahead, min_elevation, pc, exc, raised_by, period_minutes,
          step_minutes, step_delta, start_time, end_time, current_time, in_pass,
          pass_start, max_elevation, max_el_time, passes, sample, now2, info,
          position_pc, sgp4_result, geodetic, position, position_exc,
          mean_motion, n_samples, run, closed_runs, strict_open, strict_expected>>

\* The variables of predict_passes and get_next_pass_info.
scanVars == <<line2, hours_ahead, min_elevation, pc, exc, raised_by, period_minutes,
              step_minutes, step_delta, start_time, end_time, current_time, in_pass,
              pass_start, max_elevation, max_el_time, passes, sample, now2, info>>

\* The variables of get_position.
positionVars == <<position_pc, sgp4_result, geodetic, position, position_exc>>

historyVars == <<mean_motion, n_samples, run, closed_runs, strict_open, strict_expected>>

None == [type |-> "None"]

\* The recursive operators of the arithmetic below.
RECURSIVE Pow2(_),
          BigOf(_),
          BigValue(_),
          BigMulRange(_, _, _, _),
          BigPow5(_),
          BitLength(_),
          TrailingZeros(_),
          BigDigit(_, _, _, _),
          BigLongDiv(_, _, _, _),
          DigitsValue(_),
          BigOfDigits(_),
          FloatErrorFrom(_, _, _, _)

Abs(x) == IF x < 0 THEN -x ELSE x

Pow2(k) == IF k <= 0 THEN 1 ELSE 2 * Pow2(k - 1)

----------------------------------------------------------------------------
(* Natural numbers of any size *)

\* A natural number is the sequence of its digits in base BigBase = 2^15,
\* lowest first, the highest not zero; zero is the empty sequence.
BigBase == 32768

BigOf(n) == IF n <= 0 THEN <<>> ELSE <<n % BigBase>> \o BigOf(n \div BigBase)

\* The value of a natural below 2^31.
BigValue(a) == IF a = <<>> THEN 0 ELSE a[1] + BigBase * BigValue(Tail(a))

\* a without the zeros above its highest digit.
BigTrim(a) ==
  SubSeq(a, 1, CHOOSE n \in 0 .. Len(a) :
                 /\ n > 0 => a[n] # 0
                 /\ \A i \in n + 1 .. Len(a) : a[i] = 0)

Limb(a, i) == IF i <= Len(a) THEN a[i] ELSE 0

\* -1, 0 or 1 as a is below, equal to or above b: the highest digit at which
\* they differ decides.
BigCmp(a, b) ==
  IF Len(a) < Len(b) THEN -1
  ELSE IF Len(a) > Len(b) THEN 1
  ELSE IF \E i \in 1 .. Len(a) : a[i] < b[i] /\ \A j \in i + 1 .. Len(a) : a[j] = b[j] THEN -1
  ELSE IF a = b THEN 0
  ELSE 1

\* The carry into digit i of a + b: some digit below overflows and every
\* digit between is full.
Carry(a, b, i) ==
  \E j \in 1 .. i - 1 :
    /\ Limb(a, j) + Limb(b, j) >= BigBase
    /\ \A k \in j + 1 .. i - 1 : Limb(a, k) + Limb(b, k) = BigBase - 1

BigAdd(a, b) ==
  BigTrim([i \in 1 .. (IF Len(a) > Len(b) THEN Len(a) ELSE Len(b)) + 1 |->
             (Limb(a, i) + Limb(b, i) + (IF Carry(a, b, i) THEN 1 ELSE 0)) % BigBase])

\* The borrow from digit i of a - b.
Borrow(a, b, i) ==
  \E j \in 1 .. i - 1 :
    /\ a[j] < Limb(b, j)
    /\ \A k \in j + 1 .. i - 1 : a[k] = Limb(b, k)

\* a - b for a >= b.
BigSub(a, b) ==
  BigTrim([i \in 1 .. Len(a) |->
             (a[i] - Limb(b, i) - (IF Borrow(a, b, i) THEN 1 ELSE 0) + BigBase) % BigBase])

\* a * k for 0 <= k <= BigBase: the low halves of the products of the digits
\* plus their high halves one digit up.
BigTimes(a, k) ==
  BigAdd([i \in 1 .. Len(a) |-> (a[i] * k) % BigBase],
         [i \in 1 .. Len(a) + 1 |-> IF i = 1 THEN 0 ELSE (a[i - 1] * k) \div BigBase])

\* a * BigBase^n
BigShiftLimbs(a, n) ==
  IF a = <<>> THEN <<>> ELSE [i \in 1 .. n + Len(a) |-> IF i <= n THEN 0 ELSE a[i - n]]

\* a \div BigBase^n
BigDropLimbs(a, n) == SubSeq(a, n + 1, Len(a))

\* a times the digits lo .. hi of b, halving the range.
BigMulRange(a, b, lo, hi) ==
  IF lo > hi THEN <<>>
  ELSE IF lo = hi THEN BigTimes(a, b[lo])
  ELSE BigAdd(BigMulRange(a, b, lo, (lo + hi) \div 2),
              BigShiftLimbs(BigMulRange(a, b, (lo + hi) \div 2 + 1, hi),
                            (lo + hi) \div 2 + 1 - lo))

BigMul(a, b) == BigMulRange(a, b, 1, Len(b))

\* a * 2^k
BigShl(a, k) == IF k <= 0 THEN a ELSE BigShiftLimbs(BigTimes(a, Pow2(k % 15)), k \div 15)

\* a \div 2^k for 0 <= k < 15
BigHalve(a, k) ==
  BigTrim([i \in 1 .. Len(a) |->
             a[i] \div Pow2(k) + (Limb(a, i + 1) % Pow2(k)) * Pow2(15 - k)])

\* a \div 2^k
BigShr(a, k) == IF k <= 0 THEN a ELSE BigHalve(BigDropLimbs(a, k \div 15), k % 15)

BigSquare(a) == BigMul(a, a)

\* 5^k
BigPow5(k) ==
  IF k <= 0 THEN <<1>>
  ELSE IF k % 2 = 0 THEN BigSquare(BigPow5(k \div 2))
  ELSE BigTimes(BigPow5(k - 1), 5)

\* 10^k
BigPow10(k) == BigShl(BigPow5(k), k)

BigIsOdd(a) == a # <<>> /\ a[1] % 2 = 1

BitLength(i) == IF i <= 0 THEN 0 ELSE 1 + BitLength(i \div 2)

\* The number of binary digits of a.
BigBitLength(a) == IF a = <<>> THEN 0 ELSE 15 * (Len(a) - 1) + BitLength(a[Len(a)])

\* The number of zeros that end the binary digits of i > 0.
TrailingZeros(i) == IF i % 2 = 1 THEN 0 ELSE 1 + TrailingZeros(i \div 2)

\* The same for a natural a > 0.
BigTrailingZeros(a) ==
  LET low == CHOOSE i \in 1 .. Len(a) : a[i] # 0 /\ \A j \in 1 .. i - 1 : a[j] = 0
  IN  15 * (low - 1) + TrailingZeros(a[low])

\* The largest digit q in lo .. hi with q * d <= n, where lo * d <= n.
BigDigit(n, d, lo, hi) ==
  IF lo = hi THEN lo
  ELSE IF BigCmp(BigTimes(d, (lo + hi + 1) \div 2), n) <= 0
  THEN BigDigit(n, d, (lo + hi + 1) \div 2, hi)
  ELSE BigDigit(n, d, lo, (lo + hi + 1) \div 2 - 1)

\* rem * BigBase + limb
BigPush(rem, limb) == BigTrim(<<limb>> \o rem)

\* Long division of n by d, from digit i of n downwards, rem being what the
\* digits above left: quotient q, lowest digit first, and remainder r.
BigLongDiv(n, d, i, rem) ==
  IF i = 0 THEN [q |-> <<>>, r |-> rem]
  ELSE LET cur == BigPush(rem, n[i])
           digit == BigDigit(cur, d, 0, BigBase - 1)
           rest == BigLongDiv(n, d, i - 1, BigSub(cur, BigTimes(d, digit)))
       IN  [q |-> Append(rest.q, digit), r |-> rest.r]

\* Quotient q and remainder r of n by d > 0, for a quotient below BigBase^4.
BigQuotient(n, d) ==
  LET res == BigLongDiv(n, d, IF Len(n) < 4 THEN Len(n) ELSE 4, BigDropLimbs(n, 4))
  IN  [q |-> BigTrim(res.q), r |-> res.r]

----------------------------------------------------------------------------
(* IEEE 754 doubles *)

\* A float is a NaN, an infinity or neg, man, exp for the value
\* (-1)^neg * man * 2^exp, man being odd, or zero with exp = 0.
Float(neg, man, exp) ==
  [type |-> "float", kind |-> "finite", neg |-> neg, man |-> man, exp |-> exp]

FloatZero(neg) == Float(neg, <<>>, 0)

FloatInf(neg) == [type |-> "float", kind |-> "inf", neg |-> neg, man |-> <<>>, exp |-> 0]

NaN == [type |-> "float", kind |-> "nan", neg |-> FALSE, man |-> <<>>, exp |-> 0]

\* A Python int.
PyInt(n) == [type |-> "int", value |-> n]

\* man * 2^exp with the factors of two moved from man to exp.
FloatCanonical(neg, man, exp) ==
  LET zeros == BigTrailingZeros(man)
  IN  IF man = <<>> THEN FloatZero(neg) ELSE Float(neg, BigShr(man, zeros), exp + zeros)

\* The position t of the leading binary digit of n / d, in [2^t, 2^(t+1)).
LeadingDigit(n, d) ==
  IF BigCmp(BigShl(n, BigBitLength(d) - BigBitLength(n)),
            BigShl(d, BigBitLength(n) - BigBitLength(d))) < 0
  THEN BigBitLength(n) - BigBitLength(d) - 1
  ELSE BigBitLength(n) - BigBitLength(d)

\* The number of binary digits a double keeps of a value in [2^t, 2^(t+1)):
\* 53, fewer below 2^-1022.
FloatPrecision(t) == IF t >= -1022 THEN 53 ELSE t + 1075

\* Round to nearest, ties to even: the quotient q.q of a division by d that
\* left q.r, taken up when q.r / d is above one half.
RoundedQuotient(q, d) ==
  LET c == BigCmp(BigTimes(q.r, 2), d)
  IN  IF c > 0 \/ (c = 0 /\ BigIsOdd(q.q)) THEN BigAdd(q.q, <<1>>) ELSE q.q

\* Rounding up to 2^1024 overflows.
FloatOverflow(x) == IF x.man = <<1>> /\ x.exp = 1024 THEN FloatInf(x.neg) ELSE x

\* The double nearest to n / d * 2^e, whose leading binary digit is at t and
\* of which p digits are kept: n / d * 2^e = (n * 2^(p - 1 - t + e) / d) * 2^(t - p + 1).
FloatOfDigits(neg, n, d, e, t, p) ==
  LET divisor == BigShl(d, t - e - p + 1)
  IN  FloatOverflow(
        FloatCanonical(neg,
                       RoundedQuotient(BigQuotient(BigShl(n, p - 1 - t + e), divisor), divisor),
                       t - p + 1))

\* The double nearest to (n / d) * 2^e for naturals n and d > 0.
FloatOfRatio(neg, n, d, e) ==
  LET t == LeadingDigit(n, d) + e
  IN  IF n = <<>> THEN FloatZero(neg)
      ELSE IF t >= 1024 THEN FloatInf(neg)
      ELSE IF FloatPrecision(t) < 0 THEN FloatZero(neg)
      ELSE FloatOfDigits(neg, n, d, e, t, FloatPrecision(t))

\* float(i) of an int.
FloatOfInt(i) == FloatOfRatio(i < 0, BigOf(Abs(i)), <<1>>, 0)

IsZero(x) == x.kind = "finite" /\ x.man = <<>>

\* a / b of two floats; dividing by zero raises.
FloatDiv(a, b) ==
  IF IsZero(b) THEN [exc |-> "ZeroDivisionError", value |-> None]
  ELSE [exc |-> "None",
        value |-> IF a.kind = "nan" \/ b.kind = "nan" THEN NaN
                  ELSE IF a.kind = "inf"
                  THEN (IF b.kind = "inf" THEN NaN ELSE FloatInf(a.neg # b.neg))
                  ELSE IF b.kind = "inf" THEN FloatZero(a.neg # b.neg)
                  ELSE FloatOfRatio(a.neg # b.neg, a.man, b.man, a.exp - b.exp)]

\* |a| < |b| for finite floats that are not zero.
MagnitudeLess(a, b) ==
  IF a.exp >= b.exp
  THEN BigCmp(BigShl(a.man, a.exp - b.exp), b.man) < 0
  ELSE BigCmp(a.man, BigShl(b.man, b.exp - a.exp)) < 0

\* a < b of two floats: no NaN is below or above anything.
FloatLess(a, b) ==
  IF a.kind = "nan" \/ b.kind = "nan" THEN FALSE
  ELSE IF a.kind = "inf" THEN a.neg /\ ~(b.kind = "inf" /\ b.neg)
  ELSE IF b.kind = "inf" THEN ~b.neg
  ELSE IF IsZero(a) THEN ~IsZero(b) /\ ~b.neg
  ELSE IF IsZero(b) THEN a.neg
  ELSE IF a.neg # b.neg THEN a.neg
  ELSE IF a.neg THEN MagnitudeLess(b, a)
  ELSE MagnitudeLess(a, b)

----------------------------------------------------------------------------
(* float() of a string *)

\* The characters with a decimal value that a string of the model can hold:
\* DecimalDigits[d + 1] are those of value d, the ASCII digit first.
DecimalDigits ==
  <<{"0", "۰", "߀", "০", "૦", "௦", "೦", "෦", "໐", "႐", "០", "᧐", "᪀", "᪐", "᮰", "꣐", "꧐", "꧰", "꯰"},
     {"1", "۱", "߁", "১", "૧", "௧", "೧", "෧", "໑", "႑", "១", "᧑", "᪁", "᪑", "᮱", "꣑", "꧑", "꧱", "꯱"},
     {"2", "۲", "߂", "২", "૨", "௨", "೨", "෨", "໒", "႒", "២", "᧒", "᪂", "᪒", "᮲", "꣒", "꧒", "꧲", "꯲"},
     {"3", "۳", "߃", "৩", "૩", "௩", "೩", "෩", "໓", "႓", "៣", "᧓", "᪃", "᪓", "᮳", "꣓", "꧓", "꧳", "꯳"},
     {"4", "۴", "߄", "৪", "૪", "௪", "೪", "෪", "໔", "႔", "៤", "᧔", "᪄", "᪔", "᮴", "꣔", "꧔", "꧴", "꯴"},
     {"5", "۵", "߅", "৫", "૫", "௫", "೫", "෫", "໕", "႕", "៥", "᧕", "᪅", "᪕", "᮵", "꣕", "꧕", "꧵", "꯵"},
     {"6", "۶", "߆", "৬", "૬", "௬", "೬", "෬", "໖", "႖", "៦", "᧖", "᪆", "᪖", "᮶", "꣖", "꧖", "꧶", "꯶"},
     {"7", "۷", "߇", "৭", "૭", "௭", "೭", "෭", "໗", "႗", "៧", "᧗", "᪇", "᪗", "᮷", "꣗", "꧗", "꧷", "꯷"},
     {"8", "۸", "߈", "৮", "૮", "௮", "೮", "෮", "໘", "႘", "៨", "᧘", "᪈", "᪘", "᮸", "꣘", "꧘", "꧸", "꯸"},
     {"9", "۹", "߉", "৯", "૯", "௯", "೯", "෯", "໙", "႙", "៩", "᧙", "᪉", "᪙", "᮹", "꣙", "꧙", "꧹", "꯹"} >>

AsciiDigits == <<"0", "1", "2", "3", "4", "5", "6", "7", "8", "9">>

Digits == {AsciiDigits[i] : i \in 1 .. 10}

DigitValue == [c \in Digits |-> CHOOSE d \in 0 .. 9 : AsciiDigits[d + 1] = c]

IsDecimal(c) == \E d \in 0 .. 9 : c \in DecimalDigits[d + 1]

DecimalValue(c) == CHOOSE d \in 0 .. 9 : c \in DecimalDigits[d + 1]

\* The white space outside ASCII that a string of the model can hold: next
\* line, no-break space, ogham space mark.
UnicodeSpaces == {"", " ", " "}

\* float() first writes every white space as a blank and every decimal digit
\* as its ASCII digit.
ToASCII(s) ==
  [i \in 1 .. Len(s) |->
     IF s[i] \in UnicodeSpaces THEN " "
     ELSE IF IsDecimal(s[i]) THEN AsciiDigits[DecimalValue(s[i]) + 1]
     ELSE s[i]]

\* The white space float() strips: blank, tab, line feed, carriage return,
\* form feed and vertical tab, and the white space outside ASCII, which
\* ToASCII writes as blanks.
Whitespace == {" ", "\t", "\n", "\r", "\f", ""} \cup UnicodeSpaces

\* Leading and trailing white space removed.
Strip(s) ==
  LET keep == {i \in 1 .. Len(s) : s[i] \notin Whitespace}
  IN  IF keep = {} THEN <<>>
      ELSE SubSeq(s, CHOOSE i \in keep : \A j \in keep : i <= j,
                     CHOOSE i \in keep : \A j \in keep : j <= i)

LowerCase ==
  ("A" :> "a") @@ ("E" :> "e") @@ ("F" :> "f") @@ ("I" :> "i") @@
  ("N" :> "n") @@ ("T" :> "t") @@ ("Y" :> "y")

ToLower(s) ==
  [i \in 1 .. Len(s) |-> IF s[i] \in DOMAIN LowerCase THEN LowerCase[s[i]] ELSE s[i]]

\* digitpart of the float() grammar: digits, single underscores between them.
IsDigitPart(s) ==
  /\ s # <<>>
  /\ \A i \in 1 .. Len(s) : s[i] \in Digits \cup {"_"}
  /\ s[1] \in Digits
  /\ s[Len(s)] \in Digits
  /\ \A i \in 1 .. Len(s) - 1 : ~(s[i] = "_" /\ s[i + 1] = "_")

IsDigit(c) == c \in Digits

DigitsOf(s) == SelectSeq(s, IsDigit)

\* The digits d without their leading zeros.
StripZeros(d) ==
  SubSeq(d, CHOOSE n \in 1 .. Len(d) + 1 :
              /\ n <= Len(d) => d[n] # "0"
              /\ \A i \in 1 .. n - 1 : d[i] = "0",
         Len(d))

DigitsValue(s) ==
  IF s = <<>> THEN 0
  ELSE DigitsValue(SubSeq(s, 1, Len(s) - 1)) * 10 + DigitValue[s[Len(s)]]

\* An exponent beyond this one makes any value an infinity or a zero.
HugeExponent == 100000

\* The value of the digits of an exponent, HugeExponent when it is larger.
ExponentValue(d) ==
  IF Len(StripZeros(d)) > 5 THEN HugeExponent ELSE DigitsValue(StripZeros(d))

\* The natural number a sequence of digits writes, halving the sequence.
BigOfDigits(d) ==
  IF Len(d) <= 4 THEN BigOf(DigitsValue(d))
  ELSE BigAdd(BigMul(BigPow10(Len(d) - Len(d) \div 2), BigOfDigits(SubSeq(d, 1, Len(d) \div 2))),
              BigOfDigits(SubSeq(d, Len(d) \div 2 + 1, Len(d))))

\* The first index of s holding one of chars, Len(s) + 1 when there is none.
FirstOf(s, chars) ==
  LET at == {i \in 1 .. Len(s) : s[i] \in chars}
  IN  IF at = {} THEN Len(s) + 1 ELSE CHOOSE i \in at : \A k \in at : i <= k

FloatValueError == [exc |-> "ValueError", value |-> None]

\* The double nearest to digits * 10^e, digits having no leading zero.  A
\* value of 10^310 or more is beyond every double, one below 10^-330 rounds
\* to zero.
DecimalToFloat(neg, digits, e) ==
  IF digits = <<>> THEN FloatZero(neg)
  ELSE IF e + Len(digits) > 310 THEN FloatInf(neg)
  ELSE IF e + Len(digits) < -330 THEN FloatZero(neg)
  ELSE IF e >= 0 THEN FloatOfRatio(neg, BigMul(BigOfDigits(digits), BigPow10(e)), <<1>>, 0)
  ELSE FloatOfRatio(neg, BigOfDigits(digits), BigPow10(-e), 0)

\* (digitpart ["." [digitpart]] | "." digitpart) [exponent]
ParseDecimal(whole, frac, marked, expnegative, expdigits, negative) ==
  IF /\ whole = <<>> \/ IsDigitPart(whole)
     /\ frac = <<>> \/ IsDigitPart(frac)
     /\ whole # <<>> \/ frac # <<>>
     /\ marked => IsDigitPart(expdigits)
  THEN [exc |-> "None",
        value |-> DecimalToFloat(negative, StripZeros(DigitsOf(whole) \o DigitsOf(frac)),
                                 (IF ~marked THEN 0
                                  ELSE IF expnegative THEN -ExponentValue(DigitsOf(expdigits))
                                  ELSE ExponentValue(DigitsOf(expdigits)))
                                   - Len(DigitsOf(frac)))]
  ELSE FloatValueError

\* The mantissa split at its first ".", the exponent at its sign.
ParseMantissa(mantissa, marked, exponent, negative) ==
  LET p == FirstOf(mantissa, {"."})
      expsigned == exponent # <<>> /\ exponent[1] \in {"+", "-"}
  IN  ParseDecimal(SubSeq(mantissa, 1, p - 1), SubSeq(mantissa, p + 1, Len(mantissa)),
                   marked, expsigned /\ exponent[1] = "-",
                   IF expsigned THEN Tail(exponent) ELSE exponent, negative)

\* "inf" | "infinity" | "nan" in any case, or a decimal split at its first
\* "e" or "E".
ParseUnsigned(body, negative) ==
  LET m == FirstOf(body, {"e", "E"})
  IN  IF ToLower(body) = <<"n", "a", "n">> THEN [exc |-> "None", value |-> NaN]
      ELSE IF ToLower(body) \in {<<"i", "n", "f">>,
                                 <<"i", "n", "f", "i", "n", "i", "t", "y">>}
      THEN [exc |-> "None", value |-> FloatInf(negative)]
      ELSE ParseMantissa(SubSeq(body, 1, m - 1), m <= Len(body),
                         SubSeq(body, m + 1, Len(body)), negative)

ParseSigned(t) ==
  IF t # <<>> /\ t[1] \in {"+", "-"}
  THEN ParseUnsigned(Tail(t), t[1] = "-")
  ELSE ParseUnsigned(t, FALSE)

\* float(s): white space, [sign], then "inf" | "infinity" | "nan" in any case
\* or (digitpart ["." [digitpart]] | "." digitpart) [("e" | "E") [sign] digitpart],
\* white space; anything else is a ValueError.
PyFloat(s) == ParseSigned(Strip(ToASCII(s)))

----------------------------------------------------------------------------
(* timedelta *)

UsPerMinute == BigOf(60000000)

UsPerHour == BigTimes(BigOf(60000000), 60)

UsPerDay == BigMul(BigOf(1000000), BigOf(86400))

MaxDeltaDays == 999999999

\* |x| cut to a whole number, for a finite float x.
IntPart(x) == IF x.exp >= 0 THEN BigShl(x.man, x.exp) ELSE BigShr(x.man, -x.exp)

\* modf: what x holds beyond its whole part, a float of the sign of x.
FracPart(x) ==
  IF x.exp >= 0 THEN FloatZero(x.neg)
  ELSE FloatCanonical(x.neg, BigSub(x.man, BigShl(IntPart(x), -x.exp)), x.exp)

\* float(factor) * x for a whole factor below 2^53.
FloatTimes(x, factor) == FloatOfRatio(x.neg, BigMul(x.man, factor), <<1>>, x.exp)

\* round(leftover) for |leftover| < 1, as a magnitude: a half goes to the
\* side that makes the sum even.
RoundLeftover(leftover, whole) ==
  LET c == BigCmp(BigTimes(leftover.man, 2), BigShl(<<1>>, -leftover.exp))
  IN  IF IsZero(leftover) \/ c < 0 THEN 0
      ELSE IF c > 0 THEN 1
      ELSE IF BigIsOdd(whole) THEN 1 ELSE 0

\* The whole microseconds product with the whole part of rest added, and
\* the fraction of rest.
AccumRest(product, rest) ==
  [whole |-> BigAdd(product, IntPart(rest)), leftover |-> FracPart(rest)]

\* accum() on the whole part and the fraction of a finite float: the whole
\* microseconds of their product by factor and the fraction left over.
Accum(whole, frac, factor) ==
  IF IsZero(frac) THEN [whole |-> BigMul(whole, factor), leftover |-> FloatZero(FALSE)]
  ELSE AccumRest(BigMul(whole, factor), FloatTimes(frac, factor))

\* The whole microseconds of sum, its leftover rounded.
RoundedSum(sum) == BigAdd(sum.whole, BigOf(RoundLeftover(sum.leftover, sum.whole)))

\* The magnitude in microseconds of timedelta(unit = x) for a finite float x.
FloatMicroseconds(x, factor) == RoundedSum(Accum(IntPart(x), FracPart(x), factor))

Timedelta(days, seconds, microseconds) ==
  [type |-> "timedelta", days |-> days, seconds |-> seconds, microseconds |-> microseconds]

\* divmod of the microseconds within a day by 10^6.
SplitSeconds(days, seconds) ==
  [days |-> days, seconds |-> BigValue(seconds.q), microseconds |-> BigValue(seconds.r)]

\* divmod by the microseconds of a day: days is its quotient and remainder.
SplitDays(days) == SplitSeconds(days.q, BigQuotient(days.r, BigOf(1000000)))

\* days, seconds and microseconds of mag microseconds.
SplitMicroseconds(mag) == SplitDays(BigQuotient(mag, UsPerDay))

DeltaOverflow == [exc |-> "OverflowError", value |-> None]

DeltaOrOverflow(neg, days, seconds, microseconds) ==
  IF BigCmp(days, BigOf(MaxDeltaDays)) > 0 THEN DeltaOverflow
  ELSE [exc |-> "None",
        value |-> Timedelta(IF neg THEN -BigValue(days) ELSE BigValue(days),
                            seconds, microseconds)]

\* The timedelta of -(d days, s seconds, us microseconds): seconds and
\* microseconds are never negative, days is.
NegatedDelta(d, s, us) ==
  IF us = 0 /\ s = 0 THEN DeltaOrOverflow(d # <<>>, d, 0, 0)
  ELSE DeltaOrOverflow(TRUE, BigAdd(d, <<1>>),
                       IF us > 0 THEN 86399 - s ELSE 86400 - s,
                       IF us > 0 THEN 1000000 - us ELSE 0)

\* The timedelta of the split microseconds, negated when neg.
SignedDelta(neg, split) ==
  IF neg THEN NegatedDelta(split.days, split.seconds, split.microseconds)
  ELSE DeltaOrOverflow(FALSE, split.days, split.seconds, split.microseconds)

\* microseconds_to_delta: the timedelta of (-1)^neg * mag microseconds, or
\* OverflowError beyond MaxDeltaDays days.
MicrosecondsToDelta(neg, mag) ==
  IF BigCmp(mag, BigMul(UsPerDay, BigOf(MaxDeltaDays + 1))) > 0 THEN DeltaOverflow
  ELSE SignedDelta(neg, SplitMicroseconds(mag))

\* timedelta(unit = x) for a Python int or float x, factor microseconds to
\* the unit.
TimedeltaOf(x, factor) ==
  IF x.type = "float" /\ x.kind = "nan" THEN [exc |-> "ValueError", value |-> None]
  ELSE IF x.type = "float" /\ x.kind = "inf" THEN [exc |-> "OverflowError", value |-> None]
  ELSE MicrosecondsToDelta(IF x.type = "int" THEN x.value < 0 ELSE x.neg,
                           IF x.type = "int" THEN BigMul(BigOf(Abs(x.value)), factor)
                           ELSE FloatMicroseconds(x, factor))

\* timedelta(minutes = m)
TimedeltaMinutes(m) == TimedeltaOf(m, UsPerMinute)

\* The value of hours_ahead, held in sixtieths of an hour: an int when whole.
HoursValue(h) ==
  IF h % 60 = 0 THEN PyInt(h \div 60)
  ELSE FloatOfRatio(h < 0, BigOf(Abs(h)), BigOf(60), 0)

\* timedelta(hours = hours_ahead)
TimedeltaHours(h) == TimedeltaOf(HoursValue(h), UsPerHour)

----------------------------------------------------------------------------
(* round() *)

\* The binary expansion of a quotient with remainder r over q, of which count
\* significant bits are written, the latest being last: the sign of the error
\* made by keeping 53 significant bits, rounded to nearest, ties to even.
FloatErrorFrom(r, q, count, last) ==
  IF r = 0 THEN 0
  ELSE LET b == (2 * r) \div q
           rest == (2 * r) % q
       IN  IF count = 53
           THEN IF b = 0 THEN -1
                ELSE IF rest > 0 THEN 1
                ELSE IF last = 1 THEN 1 ELSE -1
           ELSE IF count = 0 /\ b = 0 THEN FloatErrorFrom(rest, q, 0, 0)
           ELSE FloatErrorFrom(rest, q, count + 1, b)

\* The sign of float(p / q) - p / q for p >= 0 and q > 0: the float the code
\* holds is the double nearest to the quotient.
FloatError(p, q) == FloatErrorFrom(p % q, q, BitLength(p \div q), (p \div q) % 2)

\* Python's round(x, ndigits) on the float x nearest to n / q, counted in
\* units of 1 / unit with unit = 10^ndigits dividing q: the nearest multiple
\* of the exact binary value of x.  When n / q lies midway between two
\* multiples, x lies off the midpoint unless the midpoint is a binary
\* fraction, and only then the tie goes to the even neighbour.
PyRound(n, q, unit) ==
  LET d == q \div unit
      whole == n \div d
      r == n % d
      err == FloatError(Abs(n), q) * (IF n < 0 THEN -1 ELSE 1)
  IN  IF 2 * r < d THEN whole
      ELSE IF 2 * r > d THEN whole + 1
      ELSE IF err > 0 THEN whole + 1
      ELSE IF err < 0 THEN whole
      ELSE IF whole % 2 = 0 THEN whole ELSE whole + 1

----------------------------------------------------------------------------
(* datetime *)

\* An aware UTC datetime: days is the ordinal of its date, day 1 being
\* 0001-01-01, seconds and microseconds its time of day.
Datetime(days, seconds, microseconds) ==
  [type |-> "datetime", days |-> days, seconds |-> seconds, microseconds |-> microseconds]

\* date.min and date.max as ordinals: 0001-01-01 and 9999-12-31.
MinOrdinal == 1
MaxOrdinal == 3652059

\* Microseconds carried into seconds and seconds into days.
Normalized(days, seconds, microseconds) ==
  [days |-> days + (seconds + microseconds \div 1000000) \div 86400,
   seconds |-> (seconds + microseconds \div 1000000) % 86400,
   microseconds |-> microseconds % 1000000]

\* A date outside year 1 .. 9999 is an OverflowError.
DatetimeOrOverflow(n) ==
  IF n.days < MinOrdinal \/ n.days > MaxOrdinal
  THEN [exc |-> "OverflowError", value |-> None]
  ELSE [exc |-> "None", value |-> Datetime(n.days, n.seconds, n.microseconds)]

\* datetime + timedelta
DatetimePlus(t, d) ==
  DatetimeOrOverflow(Normalized(t.days + d.days, t.seconds + d.seconds,
                                t.microseconds + d.microseconds))

\* t + timedelta(..), delta being what building the timedelta gave: its
\* exception, if any, is raised.
PlusTimedelta(t, delta) ==
  IF delta.exc # "None" THEN delta ELSE DatetimePlus(t, delta.value)

\* datetime - timedelta
DatetimeMinus(t, d) ==
  DatetimeOrOverflow(Normalized(t.days - d.days, t.seconds - d.seconds,
                                t.microseconds - d.microseconds))

\* datetime - datetime
DatetimeDiff(a, b) ==
  LET n == Normalized(a.days - b.days, a.seconds - b.seconds, a.microseconds - b.microseconds)
  IN  Timedelta(n.days, n.seconds, n.microseconds)

\* a < b and a <= b of two datetimes
DatetimeLess(a, b) ==
  \/ a.days < b.days
  \/ a.days = b.days /\ a.seconds < b.seconds
  \/ a.days = b.days /\ a.seconds = b.seconds /\ a.microseconds < b.microseconds

DatetimeLessEq(a, b) == ~DatetimeLess(b, a)

\* The whole seconds of a timedelta, rounded down.
WholeSeconds(d) == d.days * 86400 + d.seconds

\* round(d.total_seconds() / 60, 1) in tenths of a minute, for a timedelta d
\* of less than 2^31 seconds.  A tenth of a minute is six seconds: with
\* microseconds the quotient is never midway between two tenths.
MinutesRounded(d) ==
  IF d.microseconds = 0 THEN PyRound(WholeSeconds(d), 60, 10)
  ELSE IF 2 * ((WholeSeconds(d) % 6) * 1000000 + d.microseconds) > 6000000
  THEN WholeSeconds(d) \div 6 + 1
  ELSE WholeSeconds(d) \div 6

----------------------------------------------------------------------------
(* Bounds and enumerated inputs *)

\* Largest horizon, in sixtieths of an hour.
MaxHorizon == 4

Fraction8 == <<".", "0", "0", "0", "0", "0", "0", "0", "0">>

\* Contents of the fixed-width field line2[52:63]: 16, 15.5, 30 and 1 rev/day,
\* zero, a negative value, 16 rev/day written after a vertical tab with an
\* underscore and an exponent, a NaN, a mean motion whose step leads past
\* the year 9999, one whose period is an infinity, and two fields float()
\* cannot parse.
MeanMotionFields ==
  { <<"1", "6">> \o Fraction8,
    <<"1", "5", ".", "5", "0", "0", "0", "0", "0", "0", "0">>,
    <<"3", "0">> \o Fraction8,
    <<" ", "1">> \o Fraction8,
    <<"0", "0">> \o Fraction8,
    <<"-", "1">> \o Fraction8,
    <<"", "1", "_", "6", ".", "0", "0", "0", "e", "+", "0">>,
    <<" ", " ", " ", " ", "n", "a", "n", " ", " ", " ", " ">>,
    <<" ", " ", " ", "1", "e", "-", "9", " ", " ", " ", " ">>,
    <<" ", " ", "1", "e", "-", "3", "2", "0", " ", " ", " ">>,
    <<"1", "x">> \o Fraction8,
    <<>> }

HoursAheadValues == -1 .. MaxHorizon

\* Thresholds: two outside [-90, 90] degrees, a negative one, one equal to a
\* sampled elevation, and one with three decimals.
MinElevations == {-95000, -5000, 5000, 10001, 95000}

\* A threshold no sample exceeds, in thousandths of a degree.
HighThreshold == 95000

\* hours_ahead=24, the default of predict_passes, in sixtieths of an hour.
DefaultHoursAhead == 24 * 60

\* Elevations the transforms may return for a sample; -9000 lies below every
\* threshold in [-90, 90] degrees above, so that a pass of negative
\* elevations can be closed; 10005 lies midway between two multiples of a
\* hundredth.
Elevations == {-9000, -2000, 5000, 10004, 10005}

\* Outcome of one sat.sgp4 call followed by the transforms: the status e and,
\* when e = 0, the elevation.
SampleOutcomes ==
  {[e |-> 1, el |-> 0]} \cup {[e |-> 0, el |-> x] : x \in Elevations}

\* Instants at which predict_passes may read the clock: midnight of
\* 2026-10-31, and 23:59:10.5 of that day, from where a scan runs into the
\* next day.
ScanStarts == {Datetime(739920, 0, 0), Datetime(739920, 86350, 500000)}

\* Time between the scan's reading of the clock and the summarizer's; 21
\* seconds are midway between two multiples of a tenth of a minute.
SummaryDelays == {Timedelta(0, 0, 0), Timedelta(0, 21, 0), Timedelta(0, 200, 0)}

\* Status codes of sat.sgp4: 0 is success, 1 .. 6 are its error codes.
Sgp4Statuses == 0 .. 6

\* Position (km) and velocity (km/s) vectors sat.sgp4 may hand back; on an
\* error they are whatever the propagator left there.
Sgp4Positions == {<<6778, 0, 0>>, <<0, 6778, 0>>, <<4000, 4000, 3600>>, <<0, 0, 0>>}
Sgp4Velocities == {<<0, 0, 7>>, <<3, 4, 0>>, <<2, 3, 6>>, <<0, 0, 0>>}

\* Results of pm.eci2geodetic: latitude and longitude in thousandths of a
\* degree, altitude in metres.
GeodeticResults ==
  { [lat |-> 0, lon |-> 0, alt |-> 400000],
    [lat |-> 51600, lon |-> -88000, alt |-> 420000],
    [lat |-> -45000, lon |-> 179000, alt |-> 35786000] }

----------------------------------------------------------------------------
(* get_orbital_period *)

\* (24 * 60) / float(line2[52:63]): minutes per day over revolutions per day.
get_orbital_period(l2) ==
  LET parsed == PyFloat(l2)
  IN  IF parsed.exc # "None" THEN parsed
      ELSE FloatDiv(FloatOfInt(24 * 60), parsed.value)

\* Variant: min in place of max.
StepMinutesMin(period) ==
  LET quotient == FloatDiv(period, FloatOfInt(60)).value
  IN  IF FloatLess(quotient, FloatOfInt(1)) THEN quotient ELSE PyInt(1)

\* max(1, period_minutes / 60): the int 1 unless the quotient is above it.
StepMinutes(period) ==
  LET quotient == FloatDiv(period, FloatOfInt(60)).value
  IN  IF FloatLess(FloatOfInt(1), quotient) THEN quotient ELSE PyInt(1)

----------------------------------------------------------------------------
(* Timestamps of a PassRecord *)

\* datetime.isoformat() of an aware UTC datetime, followed by "Z"; the
\* microsecond is printed when it is not 0.
IsoformatZ(t) ==
  [date |-> t.days, hour |-> t.seconds \div 3600, minute |-> (t.seconds % 3600) \div 60,
   second |-> t.seconds % 60, microsecond |-> t.microseconds,
   offset |-> "+00:00", tail |-> "Z"]

\* s.replace("Z", "")
ReplaceZ(s) == [s EXCEPT !.tail = ""]

\* datetime.fromisoformat(s)
FromIsoformat(s) ==
  Datetime(s.date, s.hour * 3600 + s.minute * 60 + s.second, s.microsecond)

----------------------------------------------------------------------------
(* predict_passes: the loop body *)

\* Variant: a sample exactly at the threshold counts as above it.
AboveOrEqual(el, min) == el >= min

\* Variant: the threshold of main.py (el > 0) in place of min_elevation.
AboveHorizon(el, min) == el > 0

\* el > min_elevation
Above(el, min) == el > min

\* Variant: the pass ends at the closing sample.
PassEndAtClose(t, step) == t

\* Variant: the pass ends two steps before the closing sample.
PassEndTwoSteps(t, step) == DatetimeMinus(DatetimeMinus(t, step).value, step).value

\* pass_end = current_time - timedelta(minutes=step_minutes), step being that
\* timedelta.  The loop has added it to a datetime to reach current_time, so
\* subtracting it stays within the dates a datetime can hold.
PassEnd(t, step) == DatetimeMinus(t, step).value

\* Variant: floor division, whole minutes.
DurationWholeMinutes(pstart, pend) == (WholeSeconds(DatetimeDiff(pend, pstart)) \div 60) * 10

\* duration = (pass_end - pass_start).total_seconds() / 60, then round(duration, 1):
\* tenths of a minute.
DurationMinutes(pstart, pend) == MinutesRounded(DatetimeDiff(pend, pstart))

\* The dictionary appended to passes.
PassRecord(pstart, pend, maxel, maxt) ==
  [start_time         |-> IsoformatZ(pstart),
   end_time           |-> IsoformatZ(pend),
   max_elevation      |-> PyRound(maxel, 1000, 100),
   max_elevation_time |-> IsoformatZ(maxt),
   duration_minutes   |-> DurationMinutes(pstart, pend)]

\* The accumulators of the loop, as one record.
ScanState ==
  [in_pass |-> in_pass, pass_start |-> pass_start, max_elevation |-> max_elevation,
   max_el_time |-> max_el_time, passes |-> passes]

\* Variant: the accumulator left by the previous pass (or the initial 0) is
\* kept when a pass starts.
PassStartsKeepsMax(st, el, t) ==
  IF el > st.max_elevation
  THEN [st EXCEPT !.in_pass = TRUE, !.pass_start = t, !.max_elevation = el, !.max_el_time = t]
  ELSE [st EXCEPT !.in_pass = TRUE, !.pass_start = t, !.max_el_time = t]

\* el > min_elevation, not in a pass: the pass is starting.
PassStarts(st, el, t) ==
  [st EXCEPT !.in_pass = TRUE, !.pass_start = t, !.max_elevation = el, !.max_el_time = t]

\* el > min_elevation, in a pass: continue tracking the maximum.
PassContinues(st, el, t) ==
  IF el > st.max_elevation
  THEN [st EXCEPT !.max_elevation = el, !.max_el_time = t]
  ELSE st

\* Variant: in_pass is not reset when the pass is emitted.
PassClosesStaysInside(st, t, step) ==
  [st EXCEPT !.passes = Append(st.passes,
                               PassRecord(st.pass_start, PassEnd(t, step),
                                          st.max_elevation, st.max_el_time)),
             !.max_elevation = 0]

\* el <= min_elevation, in a pass: the pass is ending.
PassCloses(st, t, step) ==
  [st EXCEPT !.passes = Append(st.passes,
                               PassRecord(st.pass_start, PassEnd(t, step),
                                          st.max_elevation, st.max_el_time)),
             !.in_pass = FALSE,
             !.max_elevation = 0]

\* Variant: a failed sample handled as a sample at or below the threshold.
SampleFailsAsBelow(st, t, step) ==
  IF st.in_pass THEN PassCloses(st, t, step) ELSE st

\* A sample whose status e is not 0: the body of "if e == 0" is not run.
SampleFails(st, t, step) == st

\* One iteration of the loop on the outcome o of the sample at instant t.
ScanSample(st, o, t, step, min) ==
  IF o.e = 0
  THEN IF Above(o.el, min)
       THEN IF ~st.in_pass THEN PassStarts(st, o.el, t) ELSE PassContinues(st, o.el, t)
       ELSE IF st.in_pass THEN PassCloses(st, t, step) ELSE st
  ELSE SampleFails(st, t, step)

\* Variant: a pass still open when the loop ends is emitted, ending at its
\* latest maximum.
ReturnedPassesFinalized(st) ==
  IF st.in_pass
  THEN Append(st.passes,
              PassRecord(st.pass_start, st.max_el_time, st.max_elevation, st.max_el_time))
  ELSE st.passes

\* return passes, once "while current_time <= end_time" fails.
ReturnedPasses(st) == st.passes

----------------------------------------------------------------------------
(* get_next_pass_info *)

\* Variant: the last record of the list in place of the first.
get_next_pass_info_last(ps, now) ==
  IF ps = <<>> THEN None
  ELSE LET next_pass == ps[Len(ps)]
           start == FromIsoformat(ReplaceZ(next_pass.start_time))
           time_to_pass == DatetimeDiff(start, now)
       IN  [type |-> "dict",
            time_to_next_pass_minutes |-> MinutesRounded(time_to_pass),
            next_pass |-> next_pass]

\* time_to_next_pass_minutes is round(time_to_pass.total_seconds() / 60, 1):
\* tenths of a minute.
get_next_pass_info(ps, now) ==
  IF ps = <<>> THEN None
  ELSE LET next_pass == ps[1]
           start == FromIsoformat(ReplaceZ(next_pass.start_time))
           time_to_pass == DatetimeDiff(start, now)
       IN  [type |-> "dict",
            time_to_next_pass_minutes |-> MinutesRounded(time_to_pass),
            next_pass |-> next_pass]

----------------------------------------------------------------------------
(* get_position (src/orbit.py) *)

\* Python's a / b for a >= 0 and b # 0, in whole units.
PyDiv(a, b) == IF b > 0 THEN a \div b ELSE -(a \div (-b))

\* The integer square root: sum(x**2 for x in v) ** 0.5 on the enumerated
\* velocities, whose norms are whole.
Sqrt(n) == CHOOSE k \in 0 .. n : k * k <= n /\ (k + 1) * (k + 1) > n

\* Variant: the status of the propagator is not looked at.
get_position_unchecked(out, geo) ==
  [exc |-> "None",
   geodetic |-> geo,
   value |-> [type |-> "dict",
              lat |-> geo.lat,
              lon |-> geo.lon,
              alt_km |-> PyDiv(geo.alt, 1000),
              velocity_kms |-> Sqrt(out.v[1] * out.v[1] + out.v[2] * out.v[2]
                                      + out.v[3] * out.v[3])]]

\* get_position on the result out of sat.sgp4 and, if it comes to call
\* pm.eci2geodetic, on the result geo of that call.  alt_km is in km.
get_position(out, geo) ==
  IF out.e # 0
  THEN [exc |-> "RuntimeError", geodetic |-> None, value |-> None]
  ELSE [exc |-> "None",
        geodetic |-> geo,
        value |-> [type |-> "dict",
                   lat |-> geo.lat,
                   lon |-> geo.lon,
                   alt_km |-> PyDiv(geo.alt, 1000),
                   velocity_kms |-> Sqrt(out.v[1] * out.v[1] + out.v[2] * out.v[2]
                                           + out.v[3] * out.v[3])]]

----------------------------------------------------------------------------
(* The program *)

Init ==
  /\ line2 = None
  /\ hours_ahead = None
  /\ min_elevation = None
  /\ pc = "idle"
  /\ exc = "None"
  /\ raised_by = "None"
  /\ period_minutes = None
  /\ step_minutes = None
  /\ step_delta = None
  /\ start_time = None
  /\ end_time = None
  /\ current_time = None
  /\ in_pass = FALSE
  /\ pass_start = None
  /\ max_elevation = 0
  /\ max_el_time = None
  /\ passes = <<>>
  /\ sample = None
  /\ now2 = None
  /\ info = None
  /\ position_pc = "idle"
  /\ sgp4_result = None
  /\ geodetic = None
  /\ position = None
  /\ position_exc = "None"
  /\ mean_motion = None
  /\ n_samples = 0
  /\ run = None
  /\ closed_runs = <<>>
  /\ strict_open = <<>>
  /\ strict_expected = <<>>

Raise(e, by) ==
  /\ pc' = "raised"
  /\ exc' = e
  /\ raised_by' = by

\* start_time + timedelta(hours=hours_ahead)
WindowEnd(now, hours) == PlusTimedelta(now, TimedeltaHours(hours))

\* step_minutes with its timedelta.
WithDelta(parsed, period, step) ==
  [mean_motion |-> parsed, period |-> period, step |-> step, delta |-> TimedeltaMinutes(step)]

\* The period with its step, when a period was returned.
WithStep(parsed, period) ==
  IF period.exc # "None"
  THEN [mean_motion |-> parsed, period |-> period, step |-> None, delta |-> None]
  ELSE WithDelta(parsed, period, StepMinutes(period.value))

\* What predict_passes computes from the mean-motion field before its loop:
\* the period, the step and the timedelta of the step, with the float that
\* get_orbital_period parsed.  step and delta are read only when a period
\* was returned.
PeriodAndStep(field) == WithStep(PyFloat(field), get_orbital_period(field))

\* predict_passes up to the loop, called with a mean-motion field, a horizon
\* and a threshold of the given sets.  Satrec.twoline2rv is a collaborator
\* that reads both lines, of which only the mean-motion field is modelled:
\* it either accepts them or raises ValueError.
PredictPassesOver(fields, horizons, thresholds) ==
  /\ pc = "idle"
  /\ \E field \in fields :
       \E computed \in {PeriodAndStep(field)} :
         \E hours \in horizons, now \in ScanStarts :
           \E end \in {WindowEnd(now, hours)} :
             \E accepted \in BOOLEAN, threshold \in thresholds :
               /\ line2' = field
               /\ hours_ahead' = hours
               /\ min_elevation' = threshold
               /\ IF ~accepted
                  THEN /\ Raise("ValueError", "twoline2rv")
                       /\ UNCHANGED <<period_minutes, step_minutes, step_delta,
                                      start_time, end_time, current_time, mean_motion>>
                  ELSE IF computed.period.exc # "None"
                  THEN /\ Raise(computed.period.exc, "get_orbital_period")
                       /\ mean_motion' = computed.mean_motion
                       /\ UNCHANGED <<period_minutes, step_minutes, step_delta,
                                      start_time, end_time, current_time>>
                  ELSE /\ mean_motion' = computed.mean_motion
                       /\ period_minutes' = computed.period.value
                       /\ step_minutes' = computed.step
                       /\ step_delta' = computed.delta
                       /\ start_time' = now
                       /\ IF end.exc # "None"
                          THEN /\ Raise(end.exc, "start_time + timedelta")
                               /\ UNCHANGED <<end_time, current_time>>
                          ELSE /\ end_time' = end.value
                               /\ current_time' = now
                               /\ pc' = "scan"
                               /\ UNCHANGED <<exc, raised_by>>
  /\ UNCHANGED <<in_pass, pass_start, max_elevation, max_el_time, passes, sample, now2, info>>
  /\ UNCHANGED positionVars
  /\ UNCHANGED <<n_samples, run, closed_runs, strict_open, strict_expected>>

PredictPassesEnter == PredictPassesOver(MeanMotionFields, HoursAheadValues, MinElevations)

\* What the history variables record of the sample o taken at instant t.
\* A run starts at an above-threshold sample taken when no run is open, goes
\* on through above-threshold and failed samples, and is closed by a sample
\* at or below the threshold.
RunAfter(o, t) ==
  IF o.e # 0 THEN (IF run = None THEN None ELSE [run EXCEPT !.failed = @ + 1])
  ELSE IF o.el <= min_elevation THEN None
  ELSE IF run = None
  THEN [type |-> "run", start |-> t, max |-> o.el, max_time |-> t, last |-> t, failed |-> 0]
  ELSE [run EXCEPT !.max = IF o.el > run.max THEN o.el ELSE run.max,
                   !.max_time = IF o.el > run.max THEN t ELSE run.max_time,
                   !.last = t]

ClosedRunsAfter(o, t) ==
  IF o.e = 0 /\ o.el <= min_elevation /\ run # None
  THEN Append(closed_runs,
              [start |-> run.start, max |-> run.max, max_time |-> run.max_time,
               last |-> run.last, failed |-> run.failed,
               close |-> t, close_el |-> o.el, before |-> sample])
  ELSE closed_runs

\* The sample before this one succeeded above the threshold.
PreviousAbove == sample # None /\ sample.e = 0 /\ sample.el > min_elevation

\* Runs of consecutive successful samples above the threshold: a failed
\* sample ends such a run as a sample at or below the threshold does.
\* strict_open is the start of the run the latest sample belongs to;
\* strict_expected lists the starts of the runs directly followed by a sample
\* at or below the threshold.
StrictOpenAfter(o, t) ==
  IF o.e # 0 THEN strict_open
  ELSE IF o.el <= min_elevation THEN <<>>
  ELSE IF PreviousAbove THEN strict_open
  ELSE <<t>>

StrictExpectedAfter(o, t) ==
  IF o.e = 0 /\ o.el <= min_elevation /\ PreviousAbove
  THEN strict_expected \o strict_open
  ELSE strict_expected

\* Variant: the window end is excluded.
LoopConditionStrict(t, end) == DatetimeLess(t, end)

\* while current_time <= end_time
LoopCondition(t, end) == DatetimeLessEq(t, end)

\* One iteration of "while current_time <= end_time": the sample is handled
\* and the clock advanced, which raises when the step is no timedelta or
\* leads past the last date.
ScanStep ==
  /\ pc = "scan"
  /\ LoopCondition(current_time, end_time)
  /\ \E o \in SampleOutcomes :
       LET st == ScanSample(ScanState, o, current_time, step_delta.value, min_elevation)
       IN  /\ sample' = o
           /\ in_pass' = st.in_pass
           /\ pass_start' = st.pass_start
           /\ max_elevation' = st.max_elevation
           /\ max_el_time' = st.max_el_time
           /\ passes' = st.passes
           /\ run' = RunAfter(o, current_time)
           /\ closed_runs' = ClosedRunsAfter(o, current_time)
           /\ strict_open' = StrictOpenAfter(o, current_time)
           /\ strict_expected' = StrictExpectedAfter(o, current_time)
  /\ n_samples' = n_samples + 1
  /\ IF PlusTimedelta(current_time, step_delta).exc # "None"
     THEN /\ Raise(PlusTimedelta(current_time, step_delta).exc, "current_time += timedelta")
          /\ UNCHANGED current_time
     ELSE /\ current_time' = PlusTimedelta(current_time, step_delta).value
          /\ UNCHANGED <<pc, exc, raised_by>>
  /\ UNCHANGED <<line2, hours_ahead, min_elevation, period_minutes, step_minutes,
                 step_delta, start_time, end_time, now2, info, mean_motion>>
  /\ UNCHANGED positionVars

\* The loop condition fails: return passes.
ScanReturn ==
  /\ pc = "scan"
  /\ ~LoopCondition(current_time, end_time)
  /\ passes' = ReturnedPasses(ScanState)
  /\ pc' = "returned"
  /\ UNCHANGED <<line2, hours_ahead, min_elevation, exc, raised_by, period_minutes,
                 step_minutes, step_delta, start_time, end_time, current_time, in_pass,
                 pass_start, max_elevation, max_el_time, sample, now2, info>>
  /\ UNCHANGED positionVars
  /\ UNCHANGED historyVars

\* get_next_pass_info on the returned list, reading the clock again.
Summarize ==
  /\ pc = "returned"
  /\ \E delay \in SummaryDelays :
       /\ now2' = DatetimePlus(start_time, delay).value
       /\ info' = get_next_pass_info(passes, DatetimePlus(start_time, delay).value)
  /\ pc' = "summarized"
  /\ UNCHANGED <<line2, hours_ahead, min_elevation, exc, raised_by, period_minutes,
                 step_minutes, step_delta, start_time, end_time, current_time, in_pass,
                 pass_start, max_elevation, max_el_time, passes, sample>>
  /\ UNCHANGED positionVars
  /\ UNCHANGED historyVars

Next == PredictPassesEnter \/ ScanStep \/ ScanReturn \/ Summarize

Spec == Init /\ [][Next]_vars

----------------------------------------------------------------------------
(* The scan over the default window, with no sample above the threshold *)

\* predict_passes called with the default horizon too, and with a threshold
\* no sample exceeds.
PredictPassesDefault ==
  PredictPassesOver(MeanMotionFields, HoursAheadValues \cup {DefaultHoursAhead},
                    {HighThreshold})

NextCount == PredictPassesDefault \/ ScanStep \/ ScanReturn

\* Every step of the scan changes the position in the program or the number
\* of samples taken.
countVars == <<pc, n_samples>>

\* Inside the loop each sample returns, so the loop takes its next iteration
\* or exits: with this fairness a scan whose number of iterations is bounded
\* terminates.
SpecCount == Init /\ [][NextCount]_vars /\ WF_countVars(ScanStep \/ ScanReturn)

----------------------------------------------------------------------------
(* The position sampler on its own *)

\* One call of get_position.  Satrec.twoline2rv either accepts the two lines
\* or raises ValueError, and then sat.sgp4 is not called.
GetPosition ==
  /\ position_pc = "idle"
  /\ \E accepted \in BOOLEAN, e \in Sgp4Statuses, r \in Sgp4Positions,
        v \in Sgp4Velocities, geo \in GeodeticResults :
       LET out == [e |-> e, r |-> r, v |-> v]
           res == get_position(out, geo)
       IN  IF ~accepted
           THEN /\ sgp4_result' = None
                /\ geodetic' = None
                /\ position' = None
                /\ position_exc' = "ValueError"
                /\ position_pc' = "raised"
           ELSE /\ sgp4_result' = out
                /\ geodetic' = res.geodetic
                /\ position' = res.value
                /\ position_exc' = res.exc
                /\ position_pc' = IF res.exc = "None" THEN "returned" ELSE "raised"
  /\ UNCHANGED scanVars
  /\ UNCHANGED historyVars

NextPosition == GetPosition

SpecPosition == Init /\ [][NextPosition]_vars

----------------------------------------------------------------------------
(* Properties *)

\* The instant a timestamp of a PassRecord denotes.
InstantOf(s) ==
  Datetime(s.date, s.hour * 3600 + s.minute * 60 + s.second, s.microsecond)

\* A timedelta of less than 2^31 microseconds, in microseconds.
Microseconds(d) == WholeSeconds(d) * 1000000 + d.microseconds

PassIndexes == 1 .. Len(passes)

\* The step taken is an iteration of the loop (it alone takes a sample).
IsScanStep == pc = "scan" /\ n_samples' = n_samples + 1

\* C1: every emitted PassRecord has start_time <= max_elevation_time <= end_time,
\* whatever the samples were, failed ones included.
C1_MaxTimeWithinPass ==
  \A i \in PassIndexes :
    /\ DatetimeLessEq(InstantOf(passes[i].start_time), InstantOf(passes[i].max_elevation_time))
    /\ DatetimeLessEq(InstantOf(passes[i].max_elevation_time), InstantOf(passes[i].end_time))

\* A record whose maximum lies strictly inside the pass.
C1_Witness ==
  \E i \in PassIndexes :
    /\ DatetimeLess(InstantOf(passes[i].start_time), InstantOf(passes[i].max_elevation_time))
    /\ DatetimeLess(InstantOf(passes[i].max_elevation_time), InstantOf(passes[i].end_time))

\* C2 as stated: the recorded max_elevation (hundredths of a degree) of every
\* emitted PassRecord is >= min_elevation (thousandths).
C2_Original ==
  \A i \in PassIndexes : passes[i].max_elevation * 10 >= min_elevation

\* C2 amended: the recorded max_elevation is the maximum rounded to two
\* decimals, so it exceeds min_elevation - 0.005, and it is >= min_elevation
\* whenever min_elevation has at most two decimals.
C2_RecordedMaxAboveThreshold ==
  \A i \in PassIndexes :
    /\ passes[i].max_elevation * 10 > min_elevation - 5
    /\ min_elevation % 10 = 0 => passes[i].max_elevation * 10 >= min_elevation

\* A record whose maximum, once rounded, is below a threshold of three decimals.
C2_Witness ==
  \E i \in PassIndexes : passes[i].max_elevation * 10 < min_elevation

\* C3: the records are strictly ordered by start_time and do not overlap:
\* end_time[i] < start_time[i+1].
C3_OrderedDisjoint ==
  \A i \in PassIndexes :
    i < Len(passes) =>
      /\ DatetimeLess(InstantOf(passes[i].start_time), InstantOf(passes[i + 1].start_time))
      /\ DatetimeLess(InstantOf(passes[i].end_time), InstantOf(passes[i + 1].start_time))

\* Two passes have been emitted.
C3_Witness == Len(passes) >= 2

\* C4: duration_minutes (tenths of a minute) is end_time - start_time in
\* minutes, to the rounding of one decimal, and never negative; a pass of a
\* single sample has duration 0.
C4_Duration ==
  \A i \in PassIndexes :
    LET length == Microseconds(DatetimeDiff(InstantOf(passes[i].end_time),
                                            InstantOf(passes[i].start_time)))
    IN  /\ passes[i].duration_minutes >= 0
        /\ Abs(passes[i].duration_minutes * 6000000 - length) <= 3000000
        /\ length = 0 => passes[i].duration_minutes = 0

\* A pass of a single above-threshold sample has been emitted, with duration 0.
C4_Witness ==
  \E i \in PassIndexes :
    /\ passes[i].end_time = passes[i].start_time
    /\ passes[i].duration_minutes = 0

\* C5 as stated: a failed sample taken INSIDE closes and emits the open pass,
\* as a sample at or below the threshold does.
C5_Original ==
  [][(IsScanStep /\ sample'.e # 0 /\ in_pass)
       => (~in_pass' /\ Len(passes') = Len(passes) + 1)]_vars

\* C5 amended: a failed sample is skipped: in either state the state machine
\* is left as it was (an open pass stays open, nothing is emitted), and the
\* sample raises nothing: the scan continues with the next sample whenever
\* the clock can be advanced by the step, as after any other sample.
C5_FailedSampleSkipped ==
  [][(IsScanStep /\ sample'.e # 0)
       => /\ UNCHANGED <<in_pass, pass_start, max_elevation, max_el_time, passes>>
          /\ PlusTimedelta(current_time, step_delta).exc = "None" => (pc' = "scan" /\ exc' = "None")
          /\ pc' # "scan" => (pc' = "raised" /\ exc' = "OverflowError")]_vars

\* A failed sample was taken while a pass was open, and the pass is still open.
C5_Witness == pc = "scan" /\ sample # None /\ sample.e # 0 /\ in_pass

\* C6: a record is appended only by a loop iteration inside the window whose
\* sample succeeded with an elevation at or below the threshold; the return
\* appends nothing, so a pass still open when the window ends is not emitted.
C6_OpenPassNotEmitted ==
  [][/\ passes' # passes =>
          /\ IsScanStep
          /\ DatetimeLessEq(current_time, end_time)
          /\ in_pass
          /\ sample'.e = 0
          /\ sample'.el <= min_elevation
          /\ Len(passes') = Len(passes) + 1
          /\ SubSeq(passes', 1, Len(passes)) = passes
     /\ (pc = "scan" /\ pc' = "returned") => passes' = passes]_vars

\* The scan returned while INSIDE, after emitting an earlier pass; the open
\* pass is not in the returned list.
C6_Witness ==
  /\ pc = "returned"
  /\ in_pass
  /\ passes # <<>>
  /\ \A i \in PassIndexes : InstantOf(passes[i].start_time) # pass_start

\* x is a finite float other than zero.
IsFinite(x) == x.type = "float" /\ x.kind = "finite" /\ x.man # <<>>

\* For finite floats other than zero: q has the sign of a / b and
\* |q * b - a| <= |a| / 2^53, that is, q is a / b to the precision of a double.
IsQuotient(q, a, b) ==
  LET low == IF q.exp + b.exp < a.exp THEN q.exp + b.exp ELSE a.exp
      x == BigShl(BigMul(q.man, b.man), q.exp + b.exp - low)
      y == BigShl(a.man, a.exp - low)
  IN  /\ q.neg = (a.neg # b.neg)
      /\ BigCmp(BigShl(IF BigCmp(x, y) >= 0 THEN BigSub(x, y) ELSE BigSub(y, x), 53), y) <= 0

\* C7: when the scan enters its loop, period_minutes = 1440 / mean_motion and
\* step_minutes = max(1, period_minutes / 60), each quotient to the precision
\* of a double; hence step_minutes >= 1 > 0 for every mean motion for which a
\* period is computed: a period of at most 60 minutes, a negative one and a
\* NaN give the step 1, an infinite period an infinite step.
C7_StepLaw ==
  (pc = "scan" /\ n_samples = 0) =>
    /\ mean_motion.exc = "None"
    /\ (IsFinite(mean_motion.value) /\ IsFinite(period_minutes))
         => IsQuotient(period_minutes, Float(FALSE, <<45>>, 5), mean_motion.value)
    /\ \/ step_minutes = PyInt(1)
       \/ step_minutes.type = "float" /\ FloatLess(Float(FALSE, <<1>>, 0), step_minutes)
    /\ IF FloatLess(Float(FALSE, <<15>>, 2), period_minutes)
       THEN IF IsFinite(period_minutes)
            THEN /\ IsFinite(step_minutes)
                 /\ IsQuotient(step_minutes, period_minutes, Float(FALSE, <<15>>, 2))
            ELSE step_minutes = FloatInf(FALSE)
       ELSE step_minutes = PyInt(1)

\* The scenario of a 90-minute period: the step is 1.5 minutes.
C7_Witness ==
  /\ pc = "scan"
  /\ n_samples = 0
  /\ period_minutes = Float(FALSE, <<45>>, 1)
  /\ step_minutes = Float(FALSE, <<3>>, -1)

\* C8 as stated, whatever the type of the exception: once get_orbital_period
\* has been called on a mean-motion field that is zero, negative or
\* unparseable, it has raised and returned no period.
C8_Original ==
  (pc # "idle" /\ raised_by # "twoline2rv"
     /\ ~(mean_motion.exc = "None" /\ FloatLess(FloatZero(FALSE), mean_motion.value)))
    => (pc = "raised" /\ raised_by = "get_orbital_period")

\* C9 as stated: once predict_passes is called with a min_elevation outside
\* [-90, 90] degrees or a horizon <= 0, the call is rejected: no sample is
\* taken and no list is returned.
C9_Original ==
  (pc # "idle" /\ (min_elevation < -90000 \/ min_elevation > 90000 \/ hours_ahead <= 0))
    => /\ sample = None
       /\ pc \notin {"returned", "summarized"}

\* C10 as stated: None for an empty list; otherwise the first record unchanged
\* and time_to_next_pass_minutes equal to (start_time - now) in minutes.
C10_Original ==
  pc = "summarized" =>
    IF passes = <<>> THEN info = None
    ELSE /\ info.next_pass = passes[1]
         /\ info.time_to_next_pass_minutes * 6000000
              = Microseconds(DatetimeDiff(InstantOf(passes[1].start_time), now2))

\* C10 amended: time_to_next_pass_minutes is (start_time - now) in minutes
\* rounded to one decimal.
C10_NextPassInfo ==
  pc = "summarized" =>
    IF passes = <<>> THEN info = None
    ELSE /\ info.next_pass = passes[1]
         /\ Abs(info.time_to_next_pass_minutes * 6000000
                  - Microseconds(DatetimeDiff(InstantOf(passes[1].start_time), now2)))
              <= 3000000

\* A summary of a list of two passes whose first pass began before the
\* summarizer read the clock: the minutes are negative and rounded.
C10_Witness ==
  /\ pc = "summarized"
  /\ Len(passes) >= 2
  /\ info.time_to_next_pass_minutes < 0
  /\ info.time_to_next_pass_minutes * 6000000
       # Microseconds(DatetimeDiff(InstantOf(passes[1].start_time), now2))

\* C11: get_position returns a position only when the status of the
\* propagator is 0; on any other status it raises, returns nothing and does
\* not hand the propagator's vectors to the transform.  When the elements are
\* rejected it raises before the propagator is called.
C11_PositionOnlyOnSuccess ==
  position_pc # "idle" =>
    IF sgp4_result = None
    THEN /\ position_pc = "raised"
         /\ position_exc = "ValueError"
         /\ position = None
         /\ geodetic = None
    ELSE IF sgp4_result.e = 0
    THEN /\ position_pc = "returned"
         /\ position_exc = "None"
         /\ position # None
    ELSE /\ position_pc = "raised"
         /\ position_exc = "RuntimeError"
         /\ position = None
         /\ geodetic = None

\* The propagator reported an error and get_position raised.
C11_Witness ==
  /\ position_pc = "raised"
  /\ sgp4_result # None
  /\ sgp4_result.e # 0
  /\ position = None

\* C12 as stated, a run being contiguous in the sequence of samples (a failed
\* sample is not an above-threshold sample, so it ends the run): the records
\* emitted are, in order, those of the runs that a sample at or below the
\* threshold has followed, each starting at the first sample of its run.
C12_Original ==
  /\ Len(passes) = Len(strict_expected)
  /\ \A i \in PassIndexes : InstantOf(passes[i].start_time) = strict_expected[i]

\* C12 amended: the same with failed samples skipped: a failed sample inside
\* a run neither ends nor splits it.  The records emitted are, in scan order,
\* exactly those of the runs closed by a sample with elevation <=
\* min_elevation, each starting at the first sample of its run.
C12_OneRecordPerRun ==
  /\ Len(passes) = Len(closed_runs)
  /\ \A i \in PassIndexes : InstantOf(passes[i].start_time) = closed_runs[i].start
  /\ in_pass <=> run # None

\* Two runs have been emitted, one of them holding a failed sample and one
\* closed by a sample exactly at the threshold.
C12_Witness ==
  /\ Len(passes) = 2
  /\ \E i \in PassIndexes : closed_runs[i].failed > 0
  /\ \E i \in PassIndexes : closed_runs[i].close_el = min_elevation

\* C13 as stated: end_time is the closing instant minus the step, and it is
\* the instant of the last above-threshold sample of the pass.
C13_Original ==
  \A i \in PassIndexes :
    /\ InstantOf(passes[i].end_time) = DatetimeMinus(closed_runs[i].close, step_delta.value).value
    /\ InstantOf(passes[i].end_time) = closed_runs[i].last

\* C13 amended: end_time is the closing instant minus the step, the instant
\* of the sample taken just before the closing one: either the last
\* above-threshold sample of the pass, or a failed sample taken after it.
C13_EndTime ==
  \A i \in PassIndexes :
    LET end == InstantOf(passes[i].end_time)
    IN  /\ end = DatetimeMinus(closed_runs[i].close, step_delta.value).value
        /\ DatetimeLessEq(closed_runs[i].last, end)
        /\ \/ end = closed_runs[i].last /\ closed_runs[i].before.e = 0
           \/ DatetimeLess(closed_runs[i].last, end) /\ closed_runs[i].before.e # 0

\* A pass was closed right after a failed sample: its end_time is the instant
\* of that failed sample.
C13_Witness ==
  \E i \in PassIndexes :
    /\ closed_runs[i].before.e # 0
    /\ DatetimeLess(closed_runs[i].last, InstantOf(passes[i].end_time))

\* start_time + k * step, the instant of the sample after k samples, for a
\* step that is a timedelta.
SampleInstant(k) ==
  LET n == Normalized(start_time.days + k * step_delta.value.days,
                      start_time.seconds + k * step_delta.value.seconds,
                      start_time.microseconds + k * step_delta.value.microseconds)
  IN  Datetime(n.days, n.seconds, n.microseconds)

\* The step is a timedelta above zero.
StepPositive ==
  /\ step_delta.exc = "None"
  /\ step_delta.value.days >= 0
  /\ step_delta.value # Timedelta(0, 0, 0)

\* C14 as stated: the number of samples of a scan with a positive period and
\* a positive horizon is horizon / step, taken up or down when the step does
\* not divide the horizon: (n - 1) * step < horizon < (n + 1) * step.
C14_Original ==
  (pc = "returned" /\ FloatLess(FloatZero(FALSE), period_minutes) /\ hours_ahead > 0)
    => /\ DatetimeLess(SampleInstant(n_samples - 1), end_time)
       /\ DatetimeLess(end_time, SampleInstant(n_samples + 1))

\* C14 amended: the scan terminates, and when it returns it has taken
\* floor(horizon / step) + 1 samples for a horizon that is not negative (961
\* for a 90 minute period over 24 hours) and none for a negative one, the
\* step being the timedelta of step_minutes, a whole number of microseconds.
\* Inside the loop the next sample is the one at start + k * step after k
\* samples, the latest one was inside the window, and one of the two branches
\* of the loop can always be taken; on return the next sample would be the
\* first one after the window.  When the step is no timedelta, or leads from
\* the first sample past the last date, the scan ends by raising
\* OverflowError after that sample.
C14_SampleCount ==
  /\ pc = "scan" =>
       /\ current_time = start_time
            \/ (StepPositive /\ current_time = SampleInstant(n_samples))
       /\ n_samples = 0 <=> current_time = start_time
       /\ n_samples > 0 => DatetimeLessEq(SampleInstant(n_samples - 1), end_time)
       /\ ENABLED (ScanStep \/ ScanReturn)
  /\ pc = "returned" =>
       /\ DatetimeLess(end_time, current_time)
       /\ n_samples = 0 <=> DatetimeLess(end_time, start_time)
       /\ n_samples > 0 =>
            /\ StepPositive
            /\ current_time = SampleInstant(n_samples)
            /\ DatetimeLessEq(SampleInstant(n_samples - 1), end_time)
  /\ (pc = "raised" /\ raised_by = "current_time += timedelta") =>
       /\ exc = "OverflowError"
       /\ n_samples = 1
       /\ PlusTimedelta(start_time, step_delta).exc = "OverflowError"

C14_Witness ==
  /\ pc = "returned"
  /\ hours_ahead = DefaultHoursAhead
  /\ period_minutes = Float(FALSE, <<45>>, 1)
  /\ step_minutes = Float(FALSE, <<3>>, -1)
  /\ n_samples = 961

\* C15 as stated: max_elevation (hundredths of a degree) and
\* max_elevation_time of a record are the elevation and the instant of the
\* earliest highest sample of its own run.
C15_Original ==
  \A i \in PassIndexes :
    /\ passes[i].max_elevation * 10 = closed_runs[i].max
    /\ InstantOf(passes[i].max_elevation_time) = closed_runs[i].max_time

\* C15 amended: max_elevation is that elevation rounded to two decimals.
C15_MaxOfOwnRun ==
  \A i \in PassIndexes :
    /\ Abs(passes[i].max_elevation * 10 - closed_runs[i].max) <= 5
    /\ InstantOf(passes[i].max_elevation_time) = closed_runs[i].max_time

\* Under a negative threshold, a second pass whose samples are all negative,
\* after a pass that reached a higher maximum.
C15_Witness ==
  /\ Len(passes) = 2
  /\ min_elevation < 0
  /\ closed_runs[2].max < 0
  /\ closed_runs[1].max > closed_runs[2].max
  /\ passes[2].max_elevation < 0

====
